---- MODULE Spec2Model ----
(***************************************************************************)
(* Model of kalabox's engine facade (src/lib/engine.js): the readiness     *)
(* gate, the engine handle, and the public container operations, as a      *)
(* single-threaded, callback-driven state machine.  One step of the model  *)
(* is one synchronous run of JavaScript: a public call up to its first     *)
(* asynchronous request, or one callback of a collaborator (provider,      *)
(* engine backend, hook pipeline, registry, timer, stream) up to the next  *)
(* asynchronous request or to the caller's completion handler; that        *)
(* handler then runs to completion before any other callback can run.      *)
(*                                                                         *)
(* JavaScript values are modelled as strings: "null", "undefined", "fn"    *)
(* (a function), "#obj" (a truthy value that is neither a string nor a     *)
(* function); every other string is a JavaScript string.                   *)
(***************************************************************************)
EXTENDS Integers, Sequences, FiniteSets, TLC

\* ---- bounds ----
CountCap == 2        \* the call counters saturate here ("more than once")
MaxContainers == 2   \* length of a container list the backend returns
MaxChunks == 2       \* 'data' events of one exec stream
MaxApps == 2         \* apps in the inventory of the 'apps' task

\* ---- program constants ----
SettleDelay == 3000  \* setTimeout delay in exports.start

VARIABLES
  engine,               \* engine.js:22   "null" or "resolved"
  isProviderInstalled,  \* engine.js:38
  isProviderUp,         \* engine.js:56
  engineHasBeenInit,    \* engine.js:74
  calls,                \* pending public calls: slot -> closure state
  last,                 \* the call whose completion handler is running (or
                        \* that faulted) in this step
  probes,               \* calls made to each collaborator of the gate, counted
                        \* for as long as every answer has been positive
  registry,             \* core.deps: the keys registered by this module
  crashed,              \* an uncaught TypeError ended the process
  engineInitCalled,     \* engine.init(config) was called in this step
  gateEverOk,           \* verifyProviderIsReady has called back without error
  firstFailure,         \* the first negative answer of a gate probe: "none" so
                        \* far, "not installed" (isInstalled said no), "other"
  task                  \* the run of the 'apps' task (tasks/apps.js)

vars == <<engine, isProviderInstalled, isProviderUp, engineHasBeenInit, calls,
          last, probes, registry, crashed, engineInitCalled, gateEverOk,
          firstFailure, task>>

\* ---- JavaScript values ----
TypeOf(v) ==
  CASE v = "fn" -> "function"
    [] v = "undefined" -> "undefined"
    [] v \in {"null", "#obj"} -> "object"
    [] OTHER -> "string"

Truthy(v) == v \notin {"null", "undefined", ""}

\* ---- collaborators' answers ----
Ids == {"a", "b"}
ProviderName == "vbox"
ErrIsInstalled == "isInstalled failed"
ErrIsUp == "isUp failed"
ErrEngineConfig == "engineConfig failed"
ErrHook == "hook rejected"
ErrBackend == "backend failed"
ErrRequire == "kboxRequire failed"
ErrProviderCtl == "provider up/down failed"

Containers == {[id |-> "a", name |-> "web"], [id |-> "db", name |-> "b"]}

RECURSIVE SeqsUpTo(_, _)
SeqsUpTo(S, n) ==
  IF n = 0 THEN {<<>>}
  ELSE LET shorter == SeqsUpTo(S, n - 1)
       IN shorter \cup {Append(q, x) : q \in shorter, x \in S}

ContainerLists == SeqsUpTo(Containers, MaxContainers)

\* _.filter(msgParts).join(' ')
RECURSIVE JoinTruthy(_)
JoinTruthy(parts) ==
  LET kept == SelectSeq(parts, Truthy)
  IN IF kept = <<>> THEN ""
     ELSE IF Len(kept) = 1 THEN kept[1]
     ELSE kept[1] \o " " \o JoinTruthy(Tail(kept))

\* the message of the Error that makeProviderError builds
makeProviderError(msg) == JoinTruthy(<<"Provider", ProviderName, msg>>)

\* Slots of concurrently pending public calls.
Slots == {1, 2}

\* The closure state of one public call.
NewCall(op, cid, arg) ==
  [op |-> op, pc |-> "start", cid |-> cid, arg |-> arg, callback |-> "fn",
   stage |-> "none", ans |-> "none",
   gate |-> "pending", hook |-> "none", emits |-> <<>>, ecalls |-> <<>>,
   ctl |-> <<>>,
   confirmed |-> FALSE, waited |-> 0, nData |-> 0,
   cbCount |-> 0, via |-> "none", err |-> "none", val |-> "none",
   containers |-> <<>>, buffer |-> "null",
   bErr |-> "none", bData |-> <<>>]

NoCall == NewCall("none", "null", "null")

\* the gate's call counters
NoProbes ==
  [gate |-> 0, isInstalled |-> 0, isUp |-> 0, engineConfig |-> 0, engineInit |-> 0]

\* one more call to `what`
bump(s, what) ==
  IF s.firstFailure # "none" \/ s.probes[what] >= CountCap THEN s
  ELSE [s EXCEPT !.probes[what] = @ + 1]

\* the probe `what` answered `ans`
answered(s, what, ans) ==
  IF ans = "true" \/ s.firstFailure # "none" THEN s
  ELSE [s EXCEPT !.firstFailure = IF what = "isInstalled" /\ ans = "false"
                                   THEN "not installed" ELSE "other",
                 !.probes = NoProbes]

\* ---- the state as one value, so that handlers compose as functions ----
State ==
  [engine |-> engine, isProviderInstalled |-> isProviderInstalled,
   isProviderUp |-> isProviderUp, engineHasBeenInit |-> engineHasBeenInit,
   calls |-> calls, last |-> NoCall, probes |-> probes, registry |-> registry,
   crashed |-> crashed, engineInitCalled |-> FALSE, gateEverOk |-> gateEverOk,
   firstFailure |-> firstFailure]

Becomes(s) ==
  /\ engine' = s.engine
  /\ isProviderInstalled' = s.isProviderInstalled
  /\ isProviderUp' = s.isProviderUp
  /\ engineHasBeenInit' = s.engineHasBeenInit
  /\ calls' = s.calls
  /\ last' = s.last
  /\ probes' = s.probes
  /\ registry' = s.registry
  /\ crashed' = s.crashed
  /\ engineInitCalled' = s.engineInitCalled
  /\ gateEverOk' = s.gateEverOk
  /\ firstFailure' = s.firstFailure
  /\ task' = task

Drop(f, k) == [j \in DOMAIN f \ {k} |-> f[j]]

GatePcs == {"isInstalled", "isUp", "engineConfig"}

\* ---- completion, faults, backend calls ----

\* the caller's handler `via` is invoked with (err, val)
invoke(c, via, err, val) ==
  [c EXCEPT !.cbCount = @ + 1, !.via = via, !.err = err, !.val = val]

\* the TypeErrors of this module
ErrInvalidCallback == "TypeError: Invalid callback function"
ErrInvalidAppName == "TypeError: Invalid appName"
ErrNotAFunction == "TypeError: callback is not a function"
ErrNullEngine == "TypeError: Cannot read property of null"

\* an uncaught TypeError: nothing in the source catches it, and Node ends the
\* process on an uncaught exception
throw(s, k, e) ==
  [s EXCEPT !.last = [s.calls[k] EXCEPT !.pc = "threw", !.err = e],
            !.calls = Drop(s.calls, k),
            !.crashed = TRUE]

\* the caller's handler has been invoked as recorded in c, and nothing more
\* will happen for call k: its closures are garbage.  Invoking a callback
\* argument that is not a function is a TypeError
finish(s, k, c) ==
  IF c.via = "callback" /\ TypeOf(c.callback) # "function"
  THEN throw(s, k, ErrNotAFunction)
  ELSE [s EXCEPT !.last = [c EXCEPT !.pc = "done"], !.calls = Drop(s.calls, k)]

\* engine.<m>(a, b, ...): a TypeError when the handle is still null
engineCall(s, k, m, a, b, pc) ==
  IF s.engine = "null" THEN throw(s, k, ErrNullEngine)
  ELSE [s EXCEPT !.calls[k] =
          [@ EXCEPT !.ecalls = Append(@, [m |-> m, a |-> a, b |-> b]),
                    !.pc = pc]]

\* the name of the handler that receives a gate error
gateErrorHandler(op) == IF op = "once" THEN "done" ELSE "callback"

\* variant: the gate error is dropped, callback(null)
gateFail_SwallowsError(s, k, stage, ans, e) ==
  LET c == [s.calls[k] EXCEPT !.gate = "err", !.stage = stage, !.ans = ans]
  IN finish(s, k, invoke(c, gateErrorHandler(c.op), "null", "undefined"))

\* callback(err) of the function(err) passed to the gate
gateFail(s, k, stage, ans, e) ==
  LET c == [s.calls[k] EXCEPT !.gate = "err", !.stage = stage, !.ans = ans]
  IN finish(s, k, invoke(c, gateErrorHandler(c.op), e, "undefined"))

\* events.emit('pre-engine-create', createOptions, function(err) {...})
emit(s, k, createOptions) ==
  [s EXCEPT !.calls[k] = [@ EXCEPT !.emits = Append(@, createOptions), !.pc = "hook"]]

\* variant: no operation emits the hook
afterGate_NoHook(s, k) ==
  LET c == s.calls[k]
  IN CASE c.op \in {"list", "exists"} -> engineCall(s, k, "list", c.arg, "-", "backend")
       [] c.op = "inspect" -> engineCall(s, k, "getEnsure", c.cid, "inspect", "getEnsure")
       [] c.op \in {"create", "run", "once"} ->
            engineCall(s, k, c.op, c.arg, "-", "backend")
       [] c.op = "start" -> engineCall(s, k, "start", c.cid, c.arg, "backend")
       [] c.op = "query" -> engineCall(s, k, "exec2", c.cid, "-", "backend")
       [] OTHER -> engineCall(s, k, c.op, c.cid, "-", "backend")

\* the else-branch of the function(err) each operation passes to the gate
afterGate(s, k) ==
  LET c == s.calls[k]
  IN CASE c.op \in {"list", "exists"} -> engineCall(s, k, "list", c.arg, "-", "backend")
       [] c.op = "inspect" -> engineCall(s, k, "getEnsure", c.cid, "inspect", "getEnsure")
       [] c.op = "info" -> engineCall(s, k, "info", c.cid, "-", "backend")
       [] c.op \in {"create", "run", "once"} -> emit(s, k, c.arg)
       [] c.op = "start" -> engineCall(s, k, "start", c.cid, c.arg, "backend")
       [] c.op = "query" -> engineCall(s, k, "exec2", c.cid, "-", "backend")
       [] c.op = "stop" -> engineCall(s, k, "stop", c.cid, "-", "backend")
       [] c.op = "remove" -> engineCall(s, k, "remove", c.cid, "-", "backend")
       [] c.op = "build" -> engineCall(s, k, "build", c.cid, "-", "backend")

\* ---- the readiness gate, engine.js:38-103 ----

\* callback(null) / callback() of verifyProviderIsReady
gateOk(s, k) ==
  afterGate([s EXCEPT !.gateEverOk = TRUE, !.calls[k].gate = "ok"], k)

\* lines 84-98: after verifyProviderUp succeeded
verifyEngineInit(s, k) ==
  IF ~s.engineHasBeenInit
  THEN bump([s EXCEPT !.calls[k].pc = "engineConfig"], "engineConfig")
  ELSE gateOk(s, k)

\* variant: the up-check is skipped
verifyProviderUp_SkipsProbe(s, k) == verifyEngineInit(s, k)

verifyProviderUp(s, k) ==
  IF s.isProviderUp THEN verifyEngineInit(s, k)
  ELSE bump([s EXCEPT !.calls[k].pc = "isUp"], "isUp")

\* provider.up(callback) / provider.down(callback), lines 182 and 201
providerCtl(s, k, m) ==
  [s EXCEPT !.calls[k] = [@ EXCEPT !.ctl = Append(@, m), !.pc = m]]

\* variant: up() and down() go through the up-check as well
installedOk_ChecksUp(s, k) == verifyProviderUp(s, k)

\* what the caller of verifyProviderInstalled does on callback(null)
installedOk(s, k) ==
  CASE s.calls[k].op = "up" -> providerCtl(s, k, "providerUp")
    [] s.calls[k].op = "down" -> providerCtl(s, k, "providerDown")
    [] OTHER -> verifyProviderUp(s, k)

\* variant: the isProviderInstalled flag is not consulted
verifyProviderInstalled_AlwaysProbes(s, k) ==
  bump([s EXCEPT !.calls[k].pc = "isInstalled"], "isInstalled")

verifyProviderInstalled(s, k) ==
  IF s.isProviderInstalled THEN installedOk(s, k)
  ELSE bump([s EXCEPT !.calls[k].pc = "isInstalled"], "isInstalled")

verifyProviderIsReady(s, k) == verifyProviderInstalled(bump(s, "gate"), k)

\* variant: the flag is set whatever the provider answered
onIsInstalled_CachesAnswer(s, k, ans) ==
  LET t == [answered(s, "isInstalled", ans) EXCEPT !.isProviderInstalled = TRUE]
  IN CASE ans = "err" -> gateFail(t, k, "isInstalled", ans, ErrIsInstalled)
       [] ans = "false" ->
            gateFail(t, k, "isInstalled", ans, makeProviderError("is NOT installed!"))
       [] ans = "true" -> installedOk(t, k)

\* provider.isInstalled's callback, lines 43-52
onIsInstalled(s, k, ans) ==
  LET t == answered(s, "isInstalled", ans)
  IN CASE ans = "err" -> gateFail(t, k, "isInstalled", ans, ErrIsInstalled)
       [] ans = "false" ->
            gateFail(t, k, "isInstalled", ans, makeProviderError("is NOT installed!"))
       [] ans = "true" -> installedOk([t EXCEPT !.isProviderInstalled = TRUE], k)

\* provider.isUp's callback, lines 61-70
onIsUp(s, k, ans) ==
  LET t == answered(s, "isUp", ans)
  IN CASE ans = "err" -> gateFail(t, k, "isUp", ans, ErrIsUp)
       [] ans = "false" -> gateFail(t, k, "isUp", ans, makeProviderError("is NOT up!"))
       [] ans = "true" -> verifyEngineInit([t EXCEPT !.isProviderUp = TRUE], k)

\* variant: engine.init runs and the flag is set before the error is looked at
onEngineConfig_InitFirst(s, k, ans) ==
  LET t == answered(s, "engineConfig", ans)
  IN IF t.engine = "null" THEN throw(t, k, ErrNullEngine)
     ELSE LET u == [bump(t, "engineInit") EXCEPT !.engineHasBeenInit = TRUE,
                                                !.engineInitCalled = TRUE]
          IN IF ans = "err" THEN gateFail(u, k, "engineConfig", ans, ErrEngineConfig)
             ELSE gateOk(u, k)

\* provider.engineConfig's callback, lines 85-94
onEngineConfig(s, k, ans) ==
  LET t == answered(s, "engineConfig", ans)
  IN IF ans = "err" THEN gateFail(t, k, "engineConfig", ans, ErrEngineConfig)
     ELSE IF t.engine = "null" THEN throw(t, k, ErrNullEngine)
     ELSE gateOk([bump(t, "engineInit") EXCEPT !.engineHasBeenInit = TRUE,
                                              !.engineInitCalled = TRUE], k)

\* ---- public operations: the synchronous part of each call ----

\* a new pending call in slot k
begin(s, k, c) ==
  [s EXCEPT !.calls = (k :> c) @@ @]

\* exports.init, lines 138-159
init(s, k, callback) ==
  LET t == begin(s, k, [NewCall("init", "null", "null") EXCEPT !.callback = callback])
  IN IF TypeOf(callback) # "function" THEN throw(t, k, ErrInvalidCallback)
     ELSE IF s.engine = "null"
     THEN [t EXCEPT !.calls[k].pc = "require"]
     ELSE finish(t, k, invoke(t.calls[k], "callback", "undefined", "undefined"))

\* variant: the handle is assigned before the error is looked at
onRequire_AssignsOnError(s, k, ans) ==
  finish([s EXCEPT !.engine = "resolved",
                   !.registry = IF ans = "err" THEN @ ELSE @ \cup {"providerModule"}],
         k, invoke(s.calls[k], "callback",
                   IF ans = "err" THEN ErrRequire ELSE "undefined", "undefined"))

\* kboxRequire's callback, lines 146-154
onRequire(s, k, ans) ==
  IF ans = "err"
  THEN finish(s, k, invoke(s.calls[k], "callback", ErrRequire, "undefined"))
  ELSE finish([s EXCEPT !.engine = "resolved", !.registry = @ \cup {"providerModule"}],
              k, invoke(s.calls[k], "callback", "undefined", "undefined"))

\* exports.isUp, lines 127-129
isUp(s, k) == begin(s, k, [NewCall("isUp", "null", "null") EXCEPT !.pc = "provIsUp"])

\* exports.up, lines 177-185
up(s, k) == verifyProviderInstalled(begin(s, k, NewCall("up", "null", "null")), k)

\* exports.down, lines 195-204
down(s, k) == verifyProviderInstalled(begin(s, k, NewCall("down", "null", "null")), k)

\* variant: down() resets isProviderUp
onProviderCtl_ClearsUp(s, k, err) ==
  finish([s EXCEPT !.isProviderUp = @ /\ s.calls[k].op # "down"],
         k, invoke(s.calls[k], "callback", err, "undefined"))

\* provider.up / provider.down call the caller's callback themselves
onProviderCtl(s, k, err) ==
  finish(s, k, invoke(s.calls[k], "callback", err, "undefined"))

\* variant: the arguments are taken positionally
listArgs_Positional(a1, a2) == [appName |-> a1, callback |-> a2]

\* lines 222-225 of exports.list: the optional first argument
listArgs(a1, a2) ==
  IF a2 = "undefined" /\ TypeOf(a1) = "function"
  THEN [appName |-> "null", callback |-> a1]
  ELSE [appName |-> a1, callback |-> a2]

\* exports.list, lines 221-240, called by `op` (list itself, or exists)
listFor(s, k, op, cid, a1, a2) ==
  LET n == listArgs(a1, a2)
      t == begin(s, k, [NewCall(op, cid, n.appName) EXCEPT !.callback = n.callback])
  IN IF Truthy(n.appName) /\ TypeOf(n.appName) # "string"
     THEN throw(t, k, ErrInvalidAppName)
     ELSE IF TypeOf(n.callback) # "function" THEN throw(t, k, ErrInvalidCallback)
     ELSE verifyProviderIsReady(t, k)

list(s, k, a1, a2) == listFor(s, k, "list", "null", a1, a2)

\* exports.exists, lines 258-269: list(function(err, containers) {...})
exists(s, k, cid) == listFor(s, k, "exists", cid, "fn", "undefined")

\* variant: only container.id is compared
RECURSIVE find_IdOnly(_, _)
find_IdOnly(containers, cid) ==
  IF containers = <<>> THEN "undefined"
  ELSE IF Head(containers).id = cid THEN "container"
       ELSE find_IdOnly(Tail(containers), cid)

\* _.find(containers, function(container) {...}): the first match, or undefined
RECURSIVE find(_, _)
find(containers, cid) ==
  IF containers = <<>> THEN "undefined"
  ELSE IF Head(containers).id = cid \/ Head(containers).name = cid
       THEN "container"
       ELSE find(Tail(containers), cid)

\* lines 263-266: exists !== undefined
existsResult(containers, cid) ==
  IF find(containers, cid) # "undefined" THEN "true" ELSE "false"

\* variant: the arguments are taken positionally, without the default
startArgs_NoDefault(a2, a3) == [startOptions |-> a2, callback |-> a3]

\* lines 422-425 of exports.start: the optional middle argument
startArgs(a2, a3) ==
  IF TypeOf(a2) = "function" /\ a3 = "undefined"
  THEN [startOptions |-> "null", callback |-> a2]
  ELSE [startOptions |-> a2, callback |-> a3]

\* exports.start, lines 421-439
start(s, k, cid, a2, a3) ==
  LET n == startArgs(a2, a3)
  IN verifyProviderIsReady(begin(s, k, NewCall("start", cid, n.startOptions)), k)

\* every operation whose body is verifyProviderIsReady(function(err) {...})
gated(s, k, op, cid, arg) ==
  verifyProviderIsReady(begin(s, k, NewCall(op, cid, arg)), k)

\* exports.stop, lines 610-618: the arguments are used as they come
stop(s, k, cid, callback) ==
  verifyProviderIsReady(
    begin(s, k, [NewCall("stop", cid, "null") EXCEPT !.callback = callback]), k)

\* exports.queryData, lines 585-595: engine.exec without the gate
queryData(s, k, cid) ==
  engineCall(begin(s, k, NewCall("queryData", cid, "null")), k, "exec", cid, "-", "exec")

\* ---- callbacks of the hook pipeline, the backend, the timer ----

\* variant: the hook's error does not stop the operation
onHook_IgnoresError(s, k, err) ==
  engineCall([s EXCEPT !.calls[k].hook = IF err # "null" THEN "err" ELSE "ok"],
             k, s.calls[k].op, s.calls[k].arg, "-", "backend")

\* events.emit('pre-engine-create', createOptions, function(err) {...})
onHook(s, k, err) ==
  LET c == s.calls[k]
  IN IF err # "null"
     THEN finish(s, k, invoke([c EXCEPT !.hook = "err"], "callback", err, "undefined"))
     ELSE engineCall([s EXCEPT !.calls[k].hook = "ok"], k, c.op, c.arg, "-", "backend")

\* engine.getEnsure's callback in exports.inspect, lines 297-303
onGetEnsure(s, k, err) ==
  IF err # "null"
  THEN finish(s, k, invoke([s.calls[k] EXCEPT !.bErr = err], "callback", err, "undefined"))
  ELSE engineCall(s, k, "inspect", "container", "-", "backend")

\* setTimeout(function() { callback(err); }, 3000), lines 433-435
onStarted(s, k, err) ==
  [s EXCEPT !.calls[k] = [@ EXCEPT !.pc = "timer", !.err = err,
                                   !.confirmed = (err = "null")]]

onTimer(s, k) ==
  LET c == [s.calls[k] EXCEPT !.waited = SettleDelay]
  IN finish(s, k, invoke(c, "callback", c.err, "undefined"))

\* the backend's completion of engine.<op>(..., callback): err is "null" on
\* success; containers is what engine.list produced.  bErr and bData keep
\* what the backend delivered
onBackend(s0, k, err, containers) ==
  LET s == [s0 EXCEPT !.calls[k].bErr = err, !.calls[k].bData = containers]
      c == s.calls[k]
  IN CASE c.op = "start" -> onStarted(s, k, err)
       [] c.op = "list" ->
            finish(s, k, [invoke(c, "callback", err,
                                 IF err = "null" THEN "containers" ELSE "undefined")
                          EXCEPT !.containers = IF err = "null" THEN containers ELSE <<>>])
       [] c.op = "exists" ->
            IF err # "null"
            THEN finish(s, k, invoke(c, "callback", err, "undefined"))
            ELSE finish(s, k, [invoke(c, "callback", "null", existsResult(containers, c.cid))
                               EXCEPT !.containers = containers])
       [] c.op = "once" ->
            finish(s, k, invoke(c, "done", err, "undefined"))
       [] OTHER ->
            finish(s, k, invoke(c, "callback", err,
                                IF err = "null" THEN "result" ELSE "undefined"))

\* ---- queryData's stream, lines 544-563 and 586-594 ----

onExec(s, k, err) ==
  IF err # "null"
  THEN finish(s, k, invoke([s.calls[k] EXCEPT !.bErr = err], "callback", err, "undefined"))
  ELSE [s EXCEPT !.calls[k].pc = "stream"]

\* variant: each chunk replaces the buffer
onData_KeepsLastChunk(s, k, data) ==
  [s EXCEPT !.calls[k].buffer = data, !.calls[k].nData = @ + 1]

\* stream.on('data', ...), lines 546-552
onData(s, k, data) ==
  [s EXCEPT !.calls[k].buffer = IF @ = "null" THEN data ELSE @ \o data,
            !.calls[k].nData = @ + 1]

\* 'error': the stream may or may not go on to emit 'end'
onStreamError(s, k, err, more) ==
  LET c == invoke(s.calls[k], "callback", err, "undefined")
  IN IF more THEN [s EXCEPT !.calls[k] = c] ELSE finish(s, k, c)

onEnd(s, k) ==
  LET c == s.calls[k]
  IN finish(s, k, invoke(c, "callback", "null", IF c.buffer = "null" THEN "" ELSE c.buffer))

\* ---- the 'apps' task, src/plugins/kalabox-core/tasks/apps.js ----
\* The task sees the engine facade through kbox.engine.list and
\* kbox.engine.info, each of which answers through its callback, once, with
\* an error or with a result; async.map starts its iterator for every item at
\* once, keeps the results in the items' order, and calls its final callback
\* once: with the first error, or with all results.

\* a container name, character by character, so that split('_') is computed
NameWeb == <<"k", "_", "a", "_", "w", "e", "b">>
NameData == <<"k", "_", "a", "_", "d", "a", "t", "a">>
NameTwoParts == <<"k", "_", "d", "a", "t", "a">>
NameFourParts == <<"k", "_", "a", "_", "d", "a", "t", "a", "_", "1">>
InfoNames == {NameWeb, NameData, NameTwoParts, NameFourParts}

AppNameSet == {"a", "b"}
\* the order of String.prototype.sort on the app names
AppRank(n) == IF n = "a" THEN 1 ELSE 2

\* name.split(sep): the pieces between the separators
RECURSIVE split(_, _)
split(str, sep) ==
  IF \A i \in 1 .. Len(str) : str[i] # sep THEN <<str>>
  ELSE LET i == CHOOSE n \in 1 .. Len(str) :
                  str[n] = sep /\ \A m \in 1 .. n - 1 : str[m] # sep
       IN <<SubSeq(str, 1, i - 1)>> \o split(SubSeq(str, i + 1, Len(str)), sep)

\* variant: the second piece of the name is looked at
isDataContainer_SecondPiece(name) ==
  LET parts == split(name, "_")
  IN Len(parts) >= 2 /\ parts[2] = <<"d", "a", "t", "a">>

\* lines 146-147: split[2] === 'data' (undefined when there are fewer pieces)
isDataContainer(name) ==
  LET parts == split(name, "_")
  IN Len(parts) >= 3 /\ parts[3] = <<"d", "a", "t", "a">>

\* lines 143-157: the counters of one app
RECURSIVE countInfos(_, _)
countInfos(acc, containerInfos) ==
  IF containerInfos = <<>> THEN acc
  ELSE LET info == Head(containerInfos)
           r == IF ~isDataContainer(info.name) /\ info.running
                THEN acc.running + 1 ELSE acc.running
       IN countInfos([running |-> r, total |-> acc.total + 1], Tail(containerInfos))

\* lines 132-159: the reduction of the app infos to one object
RECURSIVE reduceInfos(_, _)
reduceInfos(obj, appInfos) ==
  IF appInfos = <<>> THEN obj
  ELSE LET appInfo == Head(appInfos)
           entry == countInfos([running |-> 0, total |-> 0], appInfo.containerInfos)
       IN reduceInfos((appInfo.appName :> entry) @@ obj, Tail(appInfos))

\* appNames.sort(), line 30
RECURSIVE insertName(_, _)
insertName(sorted, n) ==
  IF sorted = <<>> THEN <<n>>
  ELSE IF AppRank(n) < AppRank(Head(sorted)) THEN <<n>> \o sorted
       ELSE <<Head(sorted)>> \o insertName(Tail(sorted), n)

RECURSIVE sortNames(_)
sortNames(names) ==
  IF names = <<>> THEN <<>> ELSE insertName(sortNames(Tail(names)), Head(names))

PendingInfo == [st |-> "pending", name |-> <<>>, running |-> FALSE]
NoObj == [n \in {} |-> [running |-> 0, total |-> 0]]

\* the task before it is run
NoTask ==
  [pc |-> "idle", names |-> FALSE, appNames |-> <<>>, lists |-> <<>>,
   ids |-> <<>>, infos |-> <<>>, printed |-> "none", obj |-> NoObj,
   doneCount |-> 0, doneErr |-> "none"]

\* done(err), lines 104, 116, 127, 165
taskDone(t, err) ==
  [t EXCEPT !.pc = "done", !.doneCount = @ + 1, !.doneErr = err]

\* task.func, lines 93-99: getAppNames calls kbox.app.list
taskFunc(t, namesOption) ==
  [t EXCEPT !.pc = "appList", !.names = namesOption]

\* lines 122-165, on success: console.log of the summary, then done()
report(t) ==
  LET appInfos == [i \in 1 .. Len(t.appNames) |->
                     [appName |-> t.appNames[i], containerInfos |-> t.infos[i]]]
  IN taskDone([t EXCEPT !.printed = "summary",
                        !.obj = reduceInfos(NoObj, appInfos)], "undefined")

\* async.map's final callback fires when every item has its result
settle(t) ==
  IF \A i \in 1 .. Len(t.appNames) :
       /\ t.lists[i] = "ok"
       /\ \A j \in 1 .. Len(t.infos[i]) : t.infos[i][j].st = "ok"
  THEN report(t)
  ELSE t

\* kbox.app.list's callback, lines 18-35 and 99-121
onAppList(t, err, apps) ==
  IF err # "null" THEN taskDone(t, err)
  ELSE LET appNames == sortNames([i \in 1 .. Len(apps) |-> apps[i].name])
           u == [t EXCEPT !.appNames = appNames]
       IN IF t.names THEN taskDone([u EXCEPT !.printed = "names"], "undefined")
          ELSE settle([u EXCEPT !.pc = "map",
                                !.lists = [i \in 1 .. Len(appNames) |-> "pending"],
                                !.ids = [i \in 1 .. Len(appNames) |-> <<>>],
                                !.infos = [i \in 1 .. Len(appNames) |-> <<>>]])

\* kbox.engine.list's callback in getAppContainers, lines 45-60
onEngineList(t, i, err, containers) ==
  IF err # "null" THEN taskDone(t, err)
  ELSE LET containerIds == [j \in 1 .. Len(containers) |-> containers[j].id]
       IN settle([t EXCEPT !.lists[i] = "ok",
                           !.ids[i] = containerIds,
                           !.infos[i] = [j \in 1 .. Len(containerIds) |-> PendingInfo]])

\* kbox.engine.info's callback under async.map, lines 60-78
onEngineInfo(t, i, j, err, info) ==
  IF err # "null" THEN taskDone(t, err)
  ELSE settle([t EXCEPT !.infos[i][j] =
                 [st |-> "ok", name |-> info.name, running |-> info.running]])

\* ---- the state machine ----

Init ==
  /\ engine = "null"
  /\ isProviderInstalled = FALSE
  /\ isProviderUp = FALSE
  /\ engineHasBeenInit = FALSE
  /\ calls = [j \in {} |-> NoCall]
  /\ last = NoCall
  /\ probes = NoProbes
  /\ registry = {}
  /\ crashed = FALSE
  /\ engineInitCalled = FALSE
  /\ gateEverOk = FALSE
  /\ firstFailure = "none"
  /\ task = NoTask

FreeSlots == Slots \ DOMAIN calls
\* JavaScript runs one callback at a time: nothing else happens while the
\* caller's completion handler is running
Idle == ~crashed /\ last = NoCall
CanIssue == Idle /\ FreeSlots # {}
Slot == CHOOSE k \in FreeSlots : \A j \in FreeSlots : k <= j

Waiting(pc) == {k \in DOMAIN calls : Idle /\ calls[k].pc = pc}

ProbeAnswers == {"err", "false", "true"}
BackendErrs == {"null", ErrBackend}
ListArgs == {<<"fn", "undefined">>, <<"null", "fn">>, <<"app", "fn">>,
             <<"#obj", "fn">>, <<"app", "undefined">>}
StartArgs == {<<"fn", "undefined">>, <<"null", "fn">>, <<"#obj", "fn">>}
\* what the exec stream emits, chunk by chunk
StreamChunks == <<"h", "i", "\n", "!">>

InitCall == CanIssue /\ \E cb \in {"fn", "undefined"} : Becomes(init(State, Slot, cb))
IsUpCall == CanIssue /\ Becomes(isUp(State, Slot))
UpCall == CanIssue /\ Becomes(up(State, Slot))
DownCall == CanIssue /\ Becomes(down(State, Slot))
ListCall == CanIssue /\ \E a \in ListArgs : Becomes(list(State, Slot, a[1], a[2]))
ExistsCall == CanIssue /\ \E cid \in Ids : Becomes(exists(State, Slot, cid))
InspectCall == CanIssue /\ Becomes(gated(State, Slot, "inspect", "a", "null"))
InfoCall == CanIssue /\ Becomes(gated(State, Slot, "info", "a", "null"))
CreateCall == CanIssue /\ Becomes(gated(State, Slot, "create", "null", "#obj"))
StartCall ==
  CanIssue /\ \E a \in StartArgs : Becomes(start(State, Slot, "a", a[1], a[2]))
RunCall == CanIssue /\ Becomes(gated(State, Slot, "run", "null", "#obj"))
OnceCall == CanIssue /\ Becomes(gated(State, Slot, "once", "null", "#obj"))
QueryCall == CanIssue /\ Becomes(gated(State, Slot, "query", "a", "null"))
QueryDataCall == CanIssue /\ Becomes(queryData(State, Slot, "a"))
StopCall == CanIssue /\ \E cb \in {"fn", "undefined"} : Becomes(stop(State, Slot, "a", cb))
RemoveCall == CanIssue /\ Becomes(gated(State, Slot, "remove", "a", "null"))
BuildCall == CanIssue /\ Becomes(gated(State, Slot, "build", "a", "null"))

RequireReply ==
  \E k \in Waiting("require"), ans \in {"err", "ok"} : Becomes(onRequire(State, k, ans))
ProviderIsUpReply ==
  \E k \in Waiting("provIsUp"), ans \in ProbeAnswers :
    Becomes(finish(State, k,
                   invoke(calls[k], "callback",
                          IF ans = "err" THEN ErrIsUp ELSE "null",
                          IF ans = "err" THEN "undefined" ELSE ans)))
ProviderUpReply ==
  \E k \in Waiting("providerUp"), err \in {"null", ErrProviderCtl} :
    Becomes(onProviderCtl(State, k, err))
ProviderDownReply ==
  \E k \in Waiting("providerDown"), err \in {"null", ErrProviderCtl} :
    Becomes(onProviderCtl(State, k, err))
IsInstalledReply ==
  \E k \in Waiting("isInstalled"), ans \in ProbeAnswers : Becomes(onIsInstalled(State, k, ans))
IsUpReply ==
  \E k \in Waiting("isUp"), ans \in ProbeAnswers : Becomes(onIsUp(State, k, ans))
EngineConfigReply ==
  \E k \in Waiting("engineConfig"), ans \in {"err", "true"} :
    Becomes(onEngineConfig(State, k, ans))
HookReply ==
  \E k \in Waiting("hook"), err \in {"null", ErrHook} : Becomes(onHook(State, k, err))
GetEnsureReply ==
  \E k \in Waiting("getEnsure"), err \in BackendErrs : Becomes(onGetEnsure(State, k, err))
BackendReply ==
  \E k \in Waiting("backend"), err \in BackendErrs :
    \E cs \in (IF err = "null" /\ calls[k].op \in {"list", "exists"}
               THEN ContainerLists ELSE {<<>>}) :
      Becomes(onBackend(State, k, err, cs))
TimerFire == \E k \in Waiting("timer") : Becomes(onTimer(State, k))
ExecReply ==
  \E k \in Waiting("exec"), err \in BackendErrs : Becomes(onExec(State, k, err))
StreamData ==
  \E k \in Waiting("stream") :
    /\ calls[k].nData < MaxChunks
    /\ Becomes(onData(State, k, StreamChunks[calls[k].nData + 1]))
StreamError ==
  \E k \in Waiting("stream"), more \in BOOLEAN :
    calls[k].cbCount = 0 /\ Becomes(onStreamError(State, k, ErrBackend, more))
StreamEnd == \E k \in Waiting("stream") : Becomes(onEnd(State, k))
\* the caller's completion handler returns to the event loop
HandlerReturns == ~crashed /\ last # NoCall /\ Becomes(State)

Next ==
  \/ InitCall \/ IsUpCall \/ UpCall \/ DownCall \/ ListCall \/ ExistsCall
  \/ InspectCall \/ InfoCall \/ CreateCall \/ StartCall \/ RunCall \/ OnceCall
  \/ QueryCall \/ QueryDataCall \/ StopCall \/ RemoveCall \/ BuildCall
  \/ RequireReply \/ ProviderIsUpReply \/ ProviderUpReply \/ ProviderDownReply
  \/ IsInstalledReply \/ IsUpReply \/ EngineConfigReply \/ HookReply
  \/ GetEnsureReply \/ BackendReply \/ TimerFire
  \/ ExecReply \/ StreamData \/ StreamError \/ StreamEnd
  \/ HandlerReturns

Spec == Init /\ [][Next]_vars

\* one call at a time: the next call is issued when the previous has completed
NextSeq == Next /\ Cardinality(DOMAIN calls') <= 1
SpecSeq == Init /\ [][NextSeq]_vars

\* ---- the 'apps' task as a state machine ----

engineVars == <<engine, isProviderInstalled, isProviderUp, engineHasBeenInit,
                calls, last, probes, registry, crashed, engineInitCalled,
                gateEverOk, firstFailure>>

TaskErrs == {ErrBackend, makeProviderError("is NOT up!")}
Inventories == SeqsUpTo({[name |-> n] : n \in AppNameSet}, MaxApps)

\* the containers the engine has listed to the task so far
RECURSIVE listed(_)
listed(ids) == IF ids = <<>> THEN 0 ELSE Len(Head(ids)) + listed(Tail(ids))

\* the next n containers of the engine, each with an id of its own
nextContainers(n) ==
  [j \in 1 .. n |-> [id |-> ToString(listed(task.ids) + j), name |-> NameWeb]]

AppsCall ==
  /\ task.pc = "idle"
  /\ \E namesOption \in BOOLEAN : task' = taskFunc(task, namesOption)
  /\ UNCHANGED engineVars
AppListReply ==
  /\ task.pc = "appList"
  /\ \/ \E err \in TaskErrs : task' = onAppList(task, err, <<>>)
     \/ \E apps \in Inventories : task' = onAppList(task, "null", apps)
  /\ UNCHANGED engineVars
EngineListReply ==
  /\ task.pc = "map"
  /\ \E i \in 1 .. Len(task.appNames) :
       /\ task.lists[i] = "pending"
       /\ \/ \E err \in TaskErrs : task' = onEngineList(task, i, err, <<>>)
          \/ \E n \in 0 .. MaxContainers - listed(task.ids) :
               task' = onEngineList(task, i, "null", nextContainers(n))
  /\ UNCHANGED engineVars
EngineInfoReply ==
  /\ task.pc = "map"
  /\ \E i \in 1 .. Len(task.appNames) :
       \E j \in 1 .. Len(task.infos[i]) :
         /\ task.infos[i][j].st = "pending"
         /\ \/ \E err \in TaskErrs : task' = onEngineInfo(task, i, j, err, PendingInfo)
            \/ \E name \in InfoNames, running \in BOOLEAN :
                 task' = onEngineInfo(task, i, j, "null",
                                      [id |-> task.ids[i][j], name |-> name,
                                       running |-> running])
  /\ UNCHANGED engineVars

NextApps == AppsCall \/ AppListReply \/ EngineListReply \/ EngineInfoReply
SpecApps == Init /\ [][NextApps]_vars

TypeOK ==
  /\ engine \in {"null", "resolved"}
  /\ DOMAIN calls \subseteq Slots

\* ---- the claims ----

GatedOps == {"list", "exists", "inspect", "info", "create", "start", "run",
             "once", "query", "stop", "remove", "build"}

\* every call that is pending or has just completed
Known == {calls[k] : k \in DOMAIN calls} \cup {last}

\* C1: no engine adapter operation is called before the readiness gate has
\* returned success at least once in the process.
C1_NoEngineCallBeforeGate ==
  \A c \in Known : c.ecalls # <<>> => gateEverOk

\* C7: initialized implies up, and up implies installed, in every reachable
\* state, whatever operations (up and down included) run and interleave.
C7_FlagOrder ==
  /\ engineHasBeenInit => isProviderUp
  /\ isProviderUp => isProviderInstalled

\* C7 witness: all three flags are set and an up() or down() has just completed
\* while another call is still pending.
C7_Witness ==
  /\ engineHasBeenInit /\ isProviderUp /\ isProviderInstalled
  /\ last.op \in {"up", "down"} /\ last.pc = "done"
  /\ DOMAIN calls # {}

\* the operations that enter verifyProviderInstalled
VerifyingOps == GatedOps \cup {"up", "down"}

CountedProbes == {"isInstalled", "isUp", "engineConfig", "engineInit"}

\* C2: when the gate is invoked N >= 1 times one after another and every
\* probe answers positively, provider.isInstalled, provider.isUp,
\* provider.engineConfig and engine.init are each called at most once in
\* total; once the gate is initialized no invocation waits for the provider,
\* and every gated call has passed the gate successfully.
C2_ProbedAtMostOnce ==
  /\ firstFailure = "none" => \A w \in CountedProbes : probes[w] <= 1
  /\ engineHasBeenInit =>
       \A c \in Known :
         /\ c.pc \notin GatePcs
         /\ (c.op \in GatedOps /\ c.pc # "threw") => c.gate = "ok"

\* C2 witness: the gate has been invoked twice, each collaborator was called
\* exactly once, and the second invocation is at the backend.
C2_Witness ==
  /\ firstFailure = "none"
  /\ probes.gate = 2
  /\ \A w \in CountedProbes : probes[w] = 1
  /\ \E k \in DOMAIN calls : calls[k].gate = "ok" /\ calls[k].ecalls # <<>>

\* a call that was pending at `pc` and is retired by this step
RetiredAt(pc) ==
  \E k \in DOMAIN calls \ DOMAIN calls' : calls[k].pc = pc

\* C3: gate failures are not cached.  An isInstalled answer of "no" fails
\* that invocation with the provider-not-installed error and leaves the
\* installed flag as it was; while the flag is unset every invocation asks
\* the provider again; a positive answer sets the flag and lets the
\* invocation go on; and an invocation fails the gate only on a negative
\* answer to a probe it made itself.
C3_Step ==
  /\ (RetiredAt("isInstalled") /\ last'.ans = "false") =>
       /\ last'.err = "Provider vbox is NOT installed!"
       /\ last'.gate = "err" /\ last'.cbCount = 1
       /\ isProviderInstalled' = isProviderInstalled
  /\ \A k \in DOMAIN calls' \ DOMAIN calls :
       (calls'[k].op \in VerifyingOps /\ ~isProviderInstalled) =>
         calls'[k].pc = "isInstalled"
  /\ \A k \in DOMAIN calls :
       (calls[k].pc = "isInstalled" /\ ~RetiredAt("isInstalled")
          /\ (k \notin DOMAIN calls' \/ calls'[k].pc # "isInstalled")) =>
         /\ isProviderInstalled'
         /\ k \in DOMAIN calls' /\ calls'[k].gate # "err"
  /\ last'.gate = "err" =>
       /\ last'.ans \in {"err", "false"}
       /\ last'.stage \in GatePcs /\ RetiredAt(last'.stage)

C3_FailureNotCached == [][C3_Step]_vars

\* C3 witness: the first isInstalled probe answered "no", and a later
\* invocation has passed the whole gate.
C3_Witness ==
  /\ firstFailure = "not installed"
  /\ isProviderInstalled /\ gateEverOk
  /\ \E k \in DOMAIN calls : calls[k].gate = "ok"

\* C4: when the 'pre-engine-create' hook of a create, run or once call
\* completes with an error, the backend operation is never invoked for that
\* call and the caller receives exactly the hook's error, once.
C4_HookVeto ==
  \A c \in Known :
    c.hook = "err" =>
      /\ c.op \in {"create", "run", "once"}
      /\ c.pc = "done" /\ c.ecalls = <<>>
      /\ c.err = ErrHook /\ c.cbCount = 1 /\ c.via = "callback"

\* C4 witness: a create call ended by its hook's error, the gate having passed.
C4_Witness ==
  /\ last.op = "create" /\ last.hook = "err" /\ last.gate = "ok"
  /\ last.pc = "done"

\* the error the gate reports for a negative answer at a stage
ExpectedGateError(stage, ans) ==
  CASE stage = "isInstalled" /\ ans = "err" -> ErrIsInstalled
    [] stage = "isInstalled" /\ ans = "false" -> "Provider vbox is NOT installed!"
    [] stage = "isUp" /\ ans = "err" -> ErrIsUp
    [] stage = "isUp" /\ ans = "false" -> "Provider vbox is NOT up!"
    [] stage = "engineConfig" /\ ans = "err" -> ErrEngineConfig
    [] OTHER -> "no gate error"

\* C5: a gated operation (list, exists, inspect, info, create, start, run,
\* query, stop, remove, build) whose gate check fails delivers the gate's
\* error unchanged to its completion handler, once, and has neither emitted
\* the hook nor called the engine adapter.
C5_GateErrorDelivered ==
  \A c \in Known :
    (c.gate = "err" /\ c.op \in GatedOps \ {"once"}) =>
      /\ c.pc = "done" /\ c.cbCount = 1 /\ c.via = "callback"
      /\ c.err = ExpectedGateError(c.stage, c.ans)
      /\ c.hook = "none" /\ c.ecalls = <<>>

\* C5 witness: a create call failed at the up-check with "Provider is NOT up".
C5_Witness ==
  /\ last.op = "create" /\ last.gate = "err"
  /\ last.stage = "isUp" /\ last.ans = "false"

\* C6: calls that enter the gate concurrently share one in-flight check: the
\* install-check, the up-check, the config fetch and engine.init are each
\* performed once in total, and no two calls wait for the same probe.
C6_SingleFlight ==
  /\ firstFailure = "none" => \A w \in CountedProbes : probes[w] <= 1
  /\ \A pc \in GatePcs : Cardinality({k \in DOMAIN calls : calls[k].pc = pc}) <= 1

\* the stage a gated operation reaches right behind the gate
BehindGate(c) ==
  IF c.op \in {"create", "run", "once"} THEN c.pc = "hook" /\ c.ecalls = <<>>
  ELSE c.pc \in {"backend", "getEnsure"} /\ Len(c.ecalls) = 1

\* C8: each readiness flag, once true, stays true; and once the gate is
\* initialized (also after a down()) every gated call passes the gate in
\* its own synchronous step, no call starts a provider probe, and the call
\* stands right behind the gate (at the hook for create/run/once, at the
\* backend otherwise).
C8_Step ==
  /\ isProviderInstalled => isProviderInstalled'
  /\ isProviderUp => isProviderUp'
  /\ engineHasBeenInit => engineHasBeenInit'
  /\ engineHasBeenInit =>
       /\ \A k \in DOMAIN calls' :
            calls'[k].pc \in GatePcs => (k \in DOMAIN calls /\ calls[k].pc = calls'[k].pc)
       /\ \A k \in DOMAIN calls' \ DOMAIN calls :
            calls'[k].op \in GatedOps => (calls'[k].gate = "ok" /\ BehindGate(calls'[k]))

C8_FlagsMonotonic == [][C8_Step]_vars

\* C8 witness: a down() has completed without error on an initialized gate,
\* all three flags are still set, and a new call can be issued.
C8_Witness ==
  /\ last.op = "down" /\ last.pc = "done" /\ last.err = "null"
  /\ engineHasBeenInit /\ isProviderUp /\ isProviderInstalled
  /\ ~crashed /\ FreeSlots # {}

\* C9: exists(id) delivers true iff some container of the list has that id
\* or that name, false for the empty list, and the error alone when the
\* gate or list fails.
C9_Exists ==
  \A c \in Known :
    (c.op = "exists" /\ c.pc = "done") =>
      /\ c.cbCount = 1
      /\ c.err = "null" =>
           /\ c.val \in {"true", "false"}
           /\ c.val = "true" <=>
                \E i \in 1 .. Len(c.containers) :
                  c.containers[i].id = c.cid \/ c.containers[i].name = c.cid
           /\ c.containers = <<>> => c.val = "false"
      /\ c.err # "null" => (c.val = "undefined" /\ c.containers = <<>>)

\* C9 witness: exists delivered true because the second container of the
\* list has the identifier as its name, and no container has it as its id.
C9_Witness ==
  /\ last.op = "exists" /\ last.pc = "done" /\ last.val = "true"
  /\ Len(last.containers) = 2
  /\ last.containers[2].name = last.cid
  /\ \A i \in 1 .. 2 : last.containers[i].id # last.cid
  /\ last.containers[1].name # last.cid

\* C10: start(id, cb) behaves as start(id, null, cb): the same state results,
\* the backend is called as engine.start(id, null, ...), and the caller's
\* handler is invoked exactly once, and with no error only after the backend
\* has confirmed the start and the settle delay has elapsed.
C10_StartOmittedOptions ==
  /\ \A k \in FreeSlots :
       /\ start(State, k, "a", "fn", "undefined") = start(State, k, "a", "null", "fn")
       /\ engineHasBeenInit =>
            start(State, k, "a", "fn", "undefined").calls[k].ecalls
              = <<[m |-> "start", a |-> "a", b |-> "null"]>>
  /\ \A c \in Known :
       c.op = "start" =>
         /\ c.cbCount = (IF c.pc = "done" THEN 1 ELSE 0)
         /\ (c.pc = "done" /\ c.gate = "ok") =>
              /\ c.waited = SettleDelay
              /\ c.ecalls = <<[m |-> "start", a |-> c.cid, b |-> c.arg]>>
              /\ c.err = "null" <=> c.confirmed
         /\ (c.pc = "done" /\ c.err = "null") =>
              (c.confirmed /\ c.waited = SettleDelay)

\* C10 witness: a start with null options has completed without error, the
\* backend having confirmed and the settle delay having elapsed.
C10_Witness ==
  /\ last.op = "start" /\ last.pc = "done" /\ last.arg = "null"
  /\ last.err = "null" /\ last.confirmed /\ last.waited = SettleDelay

\* the provider method that up() and down() end in
CtlOf(op) == IF op = "up" THEN "providerUp" ELSE "providerDown"

Malformed(c) ==
  \/ TypeOf(c.callback) # "function"
  \/ Truthy(c.arg) /\ c.op = "list" /\ TypeOf(c.arg) # "string"

\* C12: every public operation checks its arguments before it starts any
\* asynchronous work: a call with a malformed argument faults at once, is
\* never pending, and has made no provider probe, hook emission or engine
\* adapter call.
C12_ValidatedSynchronously ==
  \A c \in Known :
    Malformed(c) =>
      /\ c.pc = "threw" /\ c.err \in {ErrInvalidCallback, ErrInvalidAppName}
      /\ c.stage = "none" /\ c.hook = "none" /\ c.ecalls = <<>> /\ c.ctl = <<>>

\* C13: the engine handle is resolved once and never replaced: a registry
\* lookup succeeds into the handle (and registers 'providerModule') only
\* while the handle is unresolved, a resolved handle stays, and with the
\* handle resolved no init starts a lookup.
C13_Step ==
  /\ (RetiredAt("require") /\ last'.pc = "done" /\ last'.err = "undefined") =>
       (engine = "null" /\ "providerModule" \notin registry)
  /\ engine = "resolved" =>
       /\ engine' = "resolved" /\ registry' = registry
       /\ \A k \in DOMAIN calls' \ DOMAIN calls : calls'[k].pc # "require"

C13_ResolvedOnce == [][C13_Step]_vars

\* C19: when init's registry lookup fails, init's callback receives that
\* error once, the engine handle and the registry stay as they were, and
\* while the handle is unresolved no init completes without a lookup of
\* its own.
C19_Step ==
  /\ (RetiredAt("require") /\ last'.err = ErrRequire) =>
       /\ last'.op = "init" /\ last'.pc = "done"
       /\ last'.cbCount = 1 /\ last'.via = "callback"
       /\ engine' = engine /\ registry' = registry
  /\ (engine = "null" /\ last'.op = "init" /\ last'.pc = "done") =>
       RetiredAt("require")
  /\ \A k \in DOMAIN calls' \ DOMAIN calls :
       (engine = "null" /\ calls'[k].op = "init") => calls'[k].pc = "require"

C19_InitFailureNotCached == [][C19_Step]_vars

\* C19 witness: an init has just failed on its lookup; the handle is
\* unresolved, nothing is registered, and no other call is pending.
C19_Witness ==
  /\ last.op = "init" /\ last.pc = "done" /\ last.err = ErrRequire
  /\ engine = "null" /\ registry = {} /\ DOMAIN calls = {}

\* the handler an operation completes through
CompletionHandler(op) == IF op = "once" THEN "done" ELSE "callback"

\* C14: no operation swallows an error: a call that has completed has
\* invoked its completion handler, and when its gate check, its hook or its
\* backend call failed, that handler (onDone for once) received a non-null
\* error.
C14_NoSwallowedError ==
  \A c \in Known :
    c.pc = "done" =>
      /\ c.cbCount >= 1
      /\ (c.gate = "err" \/ c.hook = "err" \/ c.bErr \notin {"none", "null"}) =>
           /\ c.err \notin {"none", "null", "undefined"}
           /\ c.via = CompletionHandler(c.op)

PassThroughOps == {"list", "info", "stop", "remove", "build"}

\* C15: list(cb) behaves as list(null, cb); behind the gate the backend is
\* called once, as engine.list(appName, callback), and the caller receives
\* what the backend delivered: its container list, or its error.  The same
\* holds for info, stop, remove and build.
C15_ListPassThrough ==
  /\ \A k \in FreeSlots :
       /\ list(State, k, "fn", "undefined") = list(State, k, "null", "fn")
       /\ engineHasBeenInit =>
            list(State, k, "fn", "undefined").calls[k].ecalls
              = <<[m |-> "list", a |-> "null", b |-> "-"]>>
  /\ \A c \in Known :
       (c.op \in PassThroughOps /\ c.gate = "ok" /\ c.pc # "threw") =>
         /\ c.ecalls = <<[m |-> c.op, a |-> (IF c.op = "list" THEN c.arg ELSE c.cid),
                          b |-> "-"]>>
         /\ c.pc = "done" =>
              /\ c.cbCount = 1 /\ c.via = "callback"
              /\ c.err = c.bErr
              /\ c.containers = c.bData
              /\ c.val = (IF c.bErr # "null" THEN "undefined"
                          ELSE IF c.op = "list" THEN "containers" ELSE "result")

\* C15 witness: a list call without app-name filter has delivered the two
\* containers the backend listed.
C15_Witness ==
  /\ last.op = "list" /\ last.pc = "done" /\ last.arg = "null"
  /\ last.err = "null" /\ Len(last.containers) = 2
  /\ last.ecalls = <<[m |-> "list", a |-> "null", b |-> "-"]>>

\* c1 ++ ... ++ cn
RECURSIVE Concat(_)
Concat(chunks) ==
  IF chunks = <<>> THEN "" ELSE Head(chunks) \o Concat(Tail(chunks))

\* the chunks a queryData call has received so far
Received(c) == SubSeq(StreamChunks, 1, c.nData)

\* C16: when queryData's exec stream emits chunks c1..cn and then ends, the
\* caller receives (null, c1 ++ ... ++ cn), the empty string for n = 0;
\* when exec itself fails the caller receives that error and no data.
C16_QueryDataConcat ==
  \A c \in Known :
    c.op = "queryData" =>
      /\ c.pc = "stream" =>
           c.buffer = (IF c.nData = 0 THEN "null" ELSE Concat(Received(c)))
      /\ (c.pc = "done" /\ c.bErr = "none" /\ c.cbCount = 1 /\ c.err = "null") =>
           /\ c.val = Concat(Received(c))
           /\ c.nData = 0 => c.val = ""
      /\ (c.pc = "done" /\ c.bErr # "none") =>
           /\ c.err = c.bErr /\ c.err # "null"
           /\ c.val = "undefined" /\ c.nData = 0 /\ c.cbCount = 1

\* C16 witness: the stream emitted two chunks and ended, and the caller has
\* received both, in order.
C16_Witness ==
  /\ last.op = "queryData" /\ last.pc = "done" /\ last.cbCount = 1
  /\ last.nData = 2 /\ last.err = "null"
  /\ last.val = StreamChunks[1] \o StreamChunks[2]

HookOps == {"create", "run", "once"}

\* C17: within a create, run or once call the stages come in the order gate
\* check, 'pre-engine-create' emission (with the caller's create options),
\* backend call, completion: the hook is emitted at most once and only after
\* the gate succeeded, the backend is called only after the hook completed
\* without error, and the handler is not invoked with success before the
\* backend call was issued.  No other operation emits the hook.
C17_StageOrder ==
  \A c \in Known :
    /\ c.op \notin HookOps => (c.emits = <<>> /\ c.hook = "none" /\ c.pc # "hook")
    /\ c.op \in HookOps =>
         /\ c.gate # "ok" => (c.emits = <<>> /\ c.hook = "none" /\ c.ecalls = <<>>)
         /\ c.gate = "ok" => c.emits = <<c.arg>>
         /\ c.pc = "hook" =>
              (c.gate = "ok" /\ c.hook = "none" /\ c.ecalls = <<>> /\ c.cbCount = 0)
         /\ c.hook # "none" => c.pc # "hook"
         /\ c.ecalls # <<>> <=> c.hook = "ok"
         /\ c.ecalls # <<>> => c.ecalls = <<[m |-> c.op, a |-> c.arg, b |-> "-"]>>
         /\ c.pc = "backend" => (c.hook = "ok" /\ c.cbCount = 0)
         /\ (c.cbCount > 0 /\ c.err = "null") => (c.hook = "ok" /\ c.pc = "done")

\* C17 witness: a run call has completed without error after one emission of
\* the hook with its create options and one backend call.
C17_Witness ==
  /\ last.op = "run" /\ last.pc = "done" /\ last.err = "null"
  /\ last.gate = "ok" /\ last.hook = "ok"
  /\ last.emits = <<"#obj">> /\ Len(last.ecalls) = 1

\* call k stands at pc after this step and did not before it
Arrives(k, pc) ==
  /\ k \in DOMAIN calls' /\ calls'[k].pc = pc
  /\ k \notin DOMAIN calls \/ calls[k].pc # pc

\* the stage at which a gate invocation first has to wait, by the flags
FirstStage ==
  IF ~isProviderInstalled THEN "isInstalled"
  ELSE IF ~isProviderUp THEN "isUp"
  ELSE IF ~engineHasBeenInit THEN "engineConfig"
  ELSE "none"

\* C18: the gate's stages short-circuit in order.  provider.isUp is probed
\* only with the installed flag set, provider.engineConfig is fetched only
\* with the up flag set, a failing stage leaves all three flags as they were
\* and engine.init is not called when the config fetch fails; a later gate
\* invocation starts at the first stage whose flag is unset, so it does not
\* probe isInstalled again once that flag is set.
C18_Step ==
  /\ \A k \in Slots :
       /\ Arrives(k, "isUp") => (isProviderInstalled' /\ ~isProviderUp)
       /\ Arrives(k, "engineConfig") =>
            (isProviderInstalled' /\ isProviderUp' /\ ~engineHasBeenInit)
  /\ last'.gate = "err" =>
       /\ isProviderInstalled' = isProviderInstalled
       /\ isProviderUp' = isProviderUp
       /\ engineHasBeenInit' = engineHasBeenInit
       /\ ~engineInitCalled' /\ last'.ecalls = <<>>
  /\ engineInitCalled' =>
       (engineHasBeenInit' /\ \E k \in DOMAIN calls : calls[k].pc = "engineConfig")
  /\ \A k \in DOMAIN calls' \ DOMAIN calls :
       calls'[k].op \in GatedOps =>
         IF FirstStage = "none" THEN calls'[k].gate = "ok"
         ELSE calls'[k].pc = FirstStage /\ calls'[k].gate = "pending"

C18_GateShortCircuit == [][C18_Step]_vars

\* C18 witness: a gate invocation has just failed at the config fetch, after
\* the install-check and the up-check had succeeded: installed and up are
\* set, initialized is not, and engine.init was not called.
C18_Witness ==
  /\ last.op \in GatedOps /\ last.gate = "err"
  /\ last.stage = "engineConfig" /\ last.ans = "err"
  /\ isProviderInstalled /\ isProviderUp /\ ~engineHasBeenInit
  /\ ~engineInitCalled /\ FirstStage = "engineConfig"

\* C20: the engine handle is resolved whenever it is dereferenced: no call
\* faults on a null handle, and engine.init(config) and the backend methods
\* are invoked on a resolved handle only.
C20_EngineResolvedWhenUsed ==
  /\ \A c \in Known : c.err # ErrNullEngine
  /\ engineInitCalled => engine = "resolved"
  /\ \A c \in Known : c.ecalls # <<>> => engine = "resolved"

\* C21: queryData invokes the caller's completion handler at most once per
\* call, whatever 'data', 'error' and 'end' events the exec stream emits; an
\* 'error' followed by an 'end' gives no second completion.
C21_QueryDataCompletesOnce ==
  \A c \in Known : c.op = "queryData" => c.cbCount <= 1

\* the third of the '_'-separated pieces of the name is 'data'
ThirdPieceIsData(name) ==
  \E i \in 1 .. Len(name) : \E j \in i + 1 .. Len(name) :
    /\ name[i] = "_" /\ name[j] = "_"
    /\ \A m \in 1 .. j - 1 : m # i => name[m] # "_"
    /\ Len(name) >= j + 4
    /\ <<name[j + 1], name[j + 2], name[j + 3], name[j + 4]>> = <<"d", "a", "t", "a">>
    /\ Len(name) > j + 4 => name[j + 5] = "_"

\* the containers of app i that count as running
RunningOf(i) ==
  {j \in 1 .. Len(task.infos[i]) :
     task.infos[i][j].running /\ ~ThirdPieceIsData(task.infos[i][j].name)}

\* C22: the summary of the 'apps' task has an entry for every app name of the
\* inventory; its total is the number of containers the engine listed for
\* that app and its running is the number of those that are reported running
\* and are not data containers, so running <= total; when a list or info
\* call fails, done receives that error, once, and no summary is produced.
C22_AppsSummary ==
  /\ task.doneCount = (IF task.pc = "done" THEN 1 ELSE 0)
  /\ task.printed = "summary" =>
       /\ task.pc = "done" /\ task.doneErr = "undefined" /\ ~task.names
       /\ DOMAIN task.obj = {task.appNames[i] : i \in 1 .. Len(task.appNames)}
       /\ \A i \in 1 .. Len(task.appNames) :
            (\A m \in i + 1 .. Len(task.appNames) : task.appNames[m] # task.appNames[i])
              => LET entry == task.obj[task.appNames[i]]
                 IN /\ entry.total = Len(task.ids[i])
                    /\ entry.running = Cardinality(RunningOf(i))
                    /\ entry.running <= entry.total
  /\ task.doneErr \in TaskErrs => (task.printed = "none" /\ task.obj = NoObj)
  /\ task.pc = "map" =>
       \A err \in TaskErrs : \A i \in 1 .. Len(task.appNames) :
         LET failed == IF task.lists[i] = "pending"
                       THEN {onEngineList(task, i, err, <<>>)}
                       ELSE {onEngineInfo(task, i, j, err, PendingInfo) :
                               j \in {n \in 1 .. Len(task.infos[i]) :
                                        task.infos[i][n].st = "pending"}}
         IN \A u \in failed :
              /\ u.pc = "done" /\ u.doneCount = 1 /\ u.doneErr = err
              /\ u.printed = "none"

\* C22 witness: the summary of two apps is out; one app has two containers,
\* both reported running, one of them a data container: running 1, total 2.
C22_Witness ==
  /\ task.printed = "summary" /\ Len(task.appNames) = 2
  /\ task.appNames[1] # task.appNames[2]
  /\ \E i \in 1 .. 2 :
       /\ Len(task.ids[i]) = 2
       /\ \A j \in 1 .. 2 : task.infos[i][j].running
       /\ \E j \in 1 .. 2 : task.infos[i][j].name = NameData
       /\ \E j \in 1 .. 2 : task.infos[i][j].name = NameTwoParts
       /\ task.obj[task.appNames[i]] = [running |-> 1, total |-> 2]
====
